---- MODULE Spec2Model ----
(***************************************************************************)
(* Recruitment pipeline of recruitment-ai: the applications / interviews   *)
(* tables, the candidate ranking page that writes to them, the interview   *)
(* webhook, and the derivations (stage, combined score, recommendation)    *)
(* that the dashboard, candidates list, candidate profile and ranking      *)
(* pages compute from a fetched application.                               *)
(*                                                                         *)
(* Conventions.  A nullable text column holds Null or a string.  A         *)
(* nullable number column holds NoNumber (<< >>) or <<v>>.  An optional    *)
(* property of a JavaScript object is a record field that is present or    *)
(* not (tested with DOMAIN).  A computed JavaScript number is an exact     *)
(* fraction [n, d]; NaN is the fraction with d = 0.  The interviews of an  *)
(* application are listed in creation order.                               *)
(***************************************************************************)
EXTENDS Integers, Sequences, FiniteSets, TLC

(* ----------------------------- bounds ---------------------------------- *)

\* Largest number of interview rows created for the application.
MaxInterviews == 2

\* Number of applications in the table the ranking page lists.
MaxApplications == 2

\* Candidates on the ranking page of the delete model.
MaxCandidates == 3

(* ------------------------ program constants ---------------------------- *)

\* 0.65 and 0.35, in hundredths.
TECHNICAL_WEIGHT == 65
SOFT_SKILLS_WEIGHT == 35
\* softSkillsScore is rescaled from 0..10 to 0..100.
SOFT_SKILLS_SCALE == 10
\* Recommendation bands of getRecommendationBadge.
NOT_RECOMMENDED_MAX == 20
SEMI_RECOMMENDED_MAX == 50
\* The recruitment task may be sent from this combined score.
TASK_ELIGIBLE_MIN == 50
\* The AI Interview button is shown from this technical score.
INTERVIEW_BUTTON_MIN == 20
\* getQualificationStatus labels from this technical score.
QUALIFICATION_MIN == 25
\* The webhook rounds the overall score to 1/ROUND_SCALE.
ROUND_SCALE == 10
PROFILE_RECOMMENDED_MIN == 50
PROFILE_SEMI_MIN == 20
DEFAULT_TIME_LIMIT == 120

(* ------------------------------ values --------------------------------- *)

Null == "null"
NoNumber == << >>
Number(v) == <<v>>

RecruitmentStage ==
    {"new_applications", "cv_screening", "ai_interview", "recruitment_task", "decision"}

\* Position of a stage in RECRUITMENT_STAGES.
StageOrder(stage) ==
    CASE stage = "new_applications" -> 1
      [] stage = "cv_screening" -> 2
      [] stage = "ai_interview" -> 3
      [] stage = "recruitment_task" -> 4
      [] stage = "decision" -> 5
      [] OTHER -> 0

\* An overall_assessment: category name -> rating, for any set of names.
EmptyAssessment == [c \in {} |-> 0]
Assessments ==
    { EmptyAssessment,
      [c \in {"a"} |-> 0],
      [c \in {"a"} |-> 2],
      [c \in {"a", "b"} |-> 5],
      [c \in {"a", "b"} |-> 8],
      [c \in {"a", "b"} |-> IF c = "a" THEN 10 ELSE 0] }

\* Scores the scoring service returns (0..100).
Scores == {0, 20, 80}

\* Scores the task evaluation returns (0..5).
TaskScores == {4}

\* Assessments the interview service posts to the webhook.
WebhookAssessments ==
    { EmptyAssessment,
      [c \in {"a", "b"} |-> IF c = "a" THEN 10 ELSE 0] }

\* Browser sessions showing the ranking page.
Pages == {"hr1"}

\* Technical scores of the applications the pages are given.
SnapshotScores == {0, 20, 50, 80, 100}

(* ------------------------ JavaScript numbers --------------------------- *)

RECURSIVE GCD(_, _)
GCD(a, b) == IF b = 0 THEN a ELSE GCD(b, a % b)

NaN == [n |-> 0, d |-> 0]
IsNaN(x) == x.d = 0

\* The fraction n/d in lowest terms; 0/0 is NaN.  A non-zero numerator never
\* meets a zero denominator here: the only division is sum / length, and
\* the sum of an empty list is 0.
Frac(n, d) ==
    IF d = 0 THEN NaN
    ELSE LET g == GCD(n, d) IN [n |-> n \div g, d |-> d \div g]

Int2Num(k) == [n |-> k, d |-> 1]

NumAdd(x, y) ==
    IF IsNaN(x) \/ IsNaN(y) THEN NaN ELSE Frac(x.n * y.d + y.n * x.d, x.d * y.d)
NumMul(x, y) ==
    IF IsNaN(x) \/ IsNaN(y) THEN NaN ELSE Frac(x.n * y.n, x.d * y.d)
NumDiv(x, y) ==
    IF IsNaN(x) \/ IsNaN(y) THEN NaN ELSE Frac(x.n * y.d, x.d * y.n)

\* Every comparison with NaN is false.
NumLe(x, y) == ~IsNaN(x) /\ ~IsNaN(y) /\ x.n * y.d <= y.n * x.d
NumGe(x, y) == ~IsNaN(x) /\ ~IsNaN(y) /\ x.n * y.d >= y.n * x.d
NumLt(x, y) == ~IsNaN(x) /\ ~IsNaN(y) /\ x.n * y.d < y.n * x.d

\* Math.round(x * ROUND_SCALE) / ROUND_SCALE for x >= 0 (halves round up).
Round1(x) ==
    IF IsNaN(x) THEN NaN
    ELSE Frac((2 * x.n * ROUND_SCALE + x.d) \div (2 * x.d), ROUND_SCALE)

\* !v for a nullable number column: null and 0 are falsy.
FalsyNumber(v) == v = NoNumber \/ v[1] = 0
\* !v for a nullable text column: null and "" are falsy.
FalsyText(v) == v = Null \/ v = ""

\* Object.values(m): the values of a mapping, as a list.
RECURSIVE ObjectValues(_)
ObjectValues(m) ==
    IF DOMAIN m = {} THEN << >>
    ELSE LET k == CHOOSE c \in DOMAIN m : TRUE
         IN <<m[k]>> \o ObjectValues([c \in DOMAIN m \ {k} |-> m[c]])

\* scores.reduce((sum, score) => sum + score, 0)
RECURSIVE ReduceSum(_)
ReduceSum(scores) ==
    IF scores = << >> THEN 0 ELSE scores[1] + ReduceSum(Tail(scores))

(* --------------------- pipeline stage derivation ----------------------- *)

getApplicationStage_mut6(application) ==
    IF FalsyNumber(application.total_score) THEN "new_applications"
    ELSE IF "interviews" \notin DOMAIN application \/ Len(application.interviews) = 0
         THEN "cv_screening"
    ELSE IF FalsyText(application.recruitment_task_status) THEN "ai_interview"
    ELSE IF ~FalsyText(application.candidate_decision) THEN "decision"
    ELSE IF application.recruitment_task_status = "task_completed" THEN "manager_interview"
    ELSE "recruitment_task"

\* dashboard/page.tsx (kanban)
getApplicationStage(application) ==
    \* Stage 1: New application (has CV, no score)
    IF FalsyNumber(application.total_score) THEN "new_applications"
    \* Stage 2: CV screening (has score, no interviews)
    ELSE IF "interviews" \notin DOMAIN application \/ Len(application.interviews) = 0
         THEN "cv_screening"
    \* Stage 3: AI interview (has interviews, no recruitment task)
    ELSE IF FalsyText(application.recruitment_task_status) THEN "ai_interview"
    \* Stage 6: Decision (has final decision)
    ELSE IF ~FalsyText(application.candidate_decision) THEN "decision"
    \* Stage 4: Recruitment task (task_sent or task_completed, no decision)
    ELSE "recruitment_task"

\* candidates/page.tsx (list)
getApplicationStage_candidates(application) ==
    IF FalsyNumber(application.total_score) THEN "new_applications"
    ELSE IF "interviews" \notin DOMAIN application \/ Len(application.interviews) = 0
         THEN "cv_screening"
    ELSE IF FalsyText(application.recruitment_task_status) THEN "ai_interview"
    ELSE IF ~FalsyText(application.candidate_decision) THEN "decision"
    ELSE "recruitment_task"

getApplicationStage_profile_mutDecisionFirst(application) ==
    IF FalsyNumber(application.total_score) THEN "new_applications"
    ELSE IF "interviews" \notin DOMAIN application \/ Len(application.interviews) = 0
         THEN "cv_screening"
    ELSE IF ~FalsyText(application.candidate_decision) THEN "decision"
    ELSE IF FalsyText(application.recruitment_task_status) THEN "ai_interview"
    ELSE "recruitment_task"

\* candidates/[id]/page.tsx (profile)
getApplicationStage_profile(application) ==
    IF FalsyNumber(application.total_score) THEN "new_applications"
    ELSE IF "interviews" \notin DOMAIN application \/ Len(application.interviews) = 0
         THEN "cv_screening"
    ELSE IF FalsyText(application.recruitment_task_status) THEN "ai_interview"
    ELSE IF ~FalsyText(application.candidate_decision) THEN "decision"
    ELSE "recruitment_task"

(* --------------------------- score functions --------------------------- *)

\* interview?.ai_insights?.overall_assessment is truthy: an object, even {}.
HasAssessment(interview) ==
    "overall_assessment" \in DOMAIN interview.ai_insights

\* (reduce(sum) / length) * 10 of the interview's overall_assessment
SoftSkillsOf(interview) ==
    LET softSkillsScores == ObjectValues(interview.ai_insights.overall_assessment)
    IN NumMul(NumDiv(Int2Num(ReduceSum(softSkillsScores)), Int2Num(Len(softSkillsScores))),
              Int2Num(SOFT_SKILLS_SCALE))

\* technical * 0.65 + softSkills * 0.35
Combine(technicalScore, softSkillsScore) ==
    NumAdd(NumMul(technicalScore, Frac(TECHNICAL_WEIGHT, 100)),
           NumMul(softSkillsScore, Frac(SOFT_SKILLS_WEIGHT, 100)))

calculateCombinedScore_mutFirstInterview(app) ==
    LET technicalScore ==
            IF FalsyNumber(app.total_score) THEN Int2Num(0) ELSE Int2Num(app.total_score[1])
        interview ==
            IF "interviews" \in DOMAIN app /\ Len(app.interviews) > 0
            THEN <<app.interviews[1]>>
            ELSE << >>
        softSkillsScore ==
            IF interview # << >> /\ HasAssessment(interview[1])
            THEN SoftSkillsOf(interview[1])
            ELSE Int2Num(0)
    IN [technical |-> technicalScore,
        softSkills |-> softSkillsScore,
        combined |-> Combine(technicalScore, softSkillsScore)]

\* ranking page
calculateCombinedScore(app) ==
    LET technicalScore ==
            IF FalsyNumber(app.total_score) THEN Int2Num(0) ELSE Int2Num(app.total_score[1])
        \* the last interview, as getInterviewStatus
        interview ==
            IF "interviews" \in DOMAIN app /\ Len(app.interviews) > 0
            THEN <<app.interviews[Len(app.interviews)]>>
            ELSE << >>
        softSkillsScore ==
            IF interview # << >> /\ HasAssessment(interview[1])
            THEN SoftSkillsOf(interview[1])
            ELSE Int2Num(0)
    IN [technical |-> technicalScore,
        softSkills |-> softSkillsScore,
        combined |-> Combine(technicalScore, softSkillsScore)]

\* candidate profile page
calculateScores(app) ==
    LET technicalScore ==
            IF FalsyNumber(app.total_score) THEN Int2Num(0) ELSE Int2Num(app.total_score[1])
        \* app.interviews?.[0]
        interview ==
            IF "interviews" \in DOMAIN app /\ Len(app.interviews) > 0
            THEN <<app.interviews[1]>>
            ELSE << >>
        softSkillsScore ==
            IF interview # << >> /\ HasAssessment(interview[1])
            THEN SoftSkillsOf(interview[1])
            ELSE Int2Num(0)
    IN [technical |-> technicalScore,
        softSkills |-> softSkillsScore,
        combined |-> Combine(technicalScore, softSkillsScore)]

\* app.interviews, or [] where the code guards a missing list (!interviews ||).
InterviewsOf(app) == IF "interviews" \in DOMAIN app THEN app.interviews ELSE << >>

getInterviewStatus(interviews) ==
    IF Len(interviews) = 0 THEN [status |-> "Brak rozmowy", hasData |-> FALSE]
    ELSE LET latestInterview == interviews[Len(interviews)]
         IN CASE latestInterview.status = "completed" ->
                   [status |-> "Zakonczona", hasData |-> TRUE, interview |-> latestInterview]
              [] latestInterview.status = "scheduled" ->
                   [status |-> "Zaplanowana", hasData |-> FALSE]
              [] latestInterview.status = "in_progress" ->
                   [status |-> "W trakcie", hasData |-> FALSE]
              [] OTHER -> [status |-> "Nieznany status", hasData |-> FALSE]

\* null when there is no assessment or it is empty, else the mean
getInterviewScore(interview) ==
    IF ~HasAssessment(interview) THEN NoNumber
    ELSE LET scores == ObjectValues(interview.ai_insights.overall_assessment)
         IN IF Len(scores) > 0
            THEN Number(NumDiv(Int2Num(ReduceSum(scores)), Int2Num(Len(scores))))
            ELSE NoNumber

getTaskStatus_mutGt(app) ==
    LET scores == calculateCombinedScore(app)
        isEligible == NumLt(Int2Num(TASK_ELIGIBLE_MIN), scores.combined)
        taskStatus == app.recruitment_task_status
    IN IF ~isEligible THEN [canSend |-> FALSE, status |-> Null]
       ELSE IF FalsyText(taskStatus) THEN [canSend |-> TRUE, status |-> "not_sent"]
       ELSE CASE taskStatus = "task_sent" ->
                     [canSend |-> FALSE, status |-> "waiting_for_solution"]
              [] taskStatus = "task_completed" ->
                     [canSend |-> FALSE, status |-> "completed"]
              [] OTHER -> [canSend |-> TRUE, status |-> "not_sent"]

getTaskStatus(app) ==
    LET scores == calculateCombinedScore(app)
        isEligible == NumGe(scores.combined, Int2Num(TASK_ELIGIBLE_MIN))
        taskStatus == app.recruitment_task_status
    IN IF ~isEligible THEN [canSend |-> FALSE, status |-> Null]
       ELSE IF FalsyText(taskStatus) THEN [canSend |-> TRUE, status |-> "not_sent"]
       ELSE CASE taskStatus = "task_sent" ->
                     [canSend |-> FALSE, status |-> "waiting_for_solution"]
              [] taskStatus = "task_completed" ->
                     [canSend |-> FALSE, status |-> "completed"]
              [] OTHER -> [canSend |-> TRUE, status |-> "not_sent"]

getRecommendationBadge_mutLt(app) ==
    LET combinedScore == calculateCombinedScore(app).combined
    IN IF NumLt(combinedScore, Int2Num(NOT_RECOMMENDED_MAX)) THEN "Nie rekomendowany"
       ELSE IF NumLt(combinedScore, Int2Num(SEMI_RECOMMENDED_MAX)) THEN "Semi-rekomendowany"
       ELSE "Rekomendowany"

getRecommendationBadge(app) ==
    LET combinedScore == calculateCombinedScore(app).combined
    IN IF NumLe(combinedScore, Int2Num(NOT_RECOMMENDED_MAX)) THEN "Nie rekomendowany"
       ELSE IF NumLe(combinedScore, Int2Num(SEMI_RECOMMENDED_MAX)) THEN "Semi-rekomendowany"
       ELSE "Rekomendowany"

\* candidates/[id]/page.tsx: the band under 'Ocena laczna'
getRecommendationBadge_profile(scores) ==
    IF NumGe(scores.combined, Int2Num(PROFILE_RECOMMENDED_MIN)) THEN "Rekomendowany"
    ELSE IF NumGe(scores.combined, Int2Num(PROFILE_SEMI_MIN)) THEN "Czesciowo rekomendowany"
    ELSE "Nie rekomendowany"

getQualificationStatus(score) ==
    IF FalsyNumber(score) THEN "Nie oceniono"
    ELSE IF score[1] >= QUALIFICATION_MIN THEN "Kwalifikuje sie do AI interview"
    ELSE "Nie kwalifikuje sie"

(* ------------------------------- state --------------------------------- *)

VARIABLES
    db_application,   \* the row of table applications
    db_interviews,    \* the rows of table interviews of the application, oldest first
    applications,     \* per ranking page: the fetched application, << >> before a fetch
    expandedCards,    \* per ranking page: the application's card is expanded
    snapshot,         \* an application as fetched by the four pages
    rendered,         \* what each page derived from snapshot
    db_table,         \* rows of table applications with their interviews (ranking order)
    db_job_position,  \* the published row of table job_positions
    jobPosition,      \* edit page: the job position being edited, << >> before it is loaded
    requirements,     \* scoring service: a weighted requirement list of the position
    candidateSkills,  \* scoring service: the technologies of the candidate's CV
    matchResult,      \* scoring service: the match of the two, << >> before it is computed
    questions,        \* interview page: the generated questions
    currentQuestion,  \* interview page: index of the question shown (from 0)
    isRecording,      \* interview page
    recordingStarted, \* interview page
    timeLeft,         \* interview page: seconds left for the answer
    interviewCompleted, \* interview page
    loading,          \* interview page
    streamRef,        \* interview page: "none", "live" or "stopped" camera stream
    mediaRecorder,    \* interview page: mediaRecorderRef.current and the render its onstop closes over
    recordedChunks,   \* interview page: recordedChunks.current is not empty
    timerArmed,       \* interview page: the timeout of timerRef is pending
    upload,           \* interview page: the upload request in flight, << >> if none
    uploadedVideos,   \* question numbers whose upload the server answered with ok
    tbl_applications, \* ids of the rows of table applications (several candidates)
    tbl_candidates,   \* ids of the rows of table candidates
    listed,           \* ranking page: ids of the applications it fetched
    deleting,         \* ranking page: <<id>> of the application being deleted, << >> for null
    deleteCalls       \* per application: where its deleteCandidate call waits

\* The state of the job position edit page and its table.
positionVars == <<db_job_position, jobPosition>>

\* The state of the requirement matcher of the scoring service.
matcherVars == <<requirements, candidateSkills, matchResult>>

\* The state of the AI interview page.
interviewVars ==
    <<questions, currentQuestion, isRecording, recordingStarted, timeLeft, interviewCompleted,
      loading, streamRef, mediaRecorder, recordedChunks, timerArmed, upload, uploadedVideos>>

\* The state deleteCandidate reads and writes.
deleteVars == <<tbl_applications, tbl_candidates, listed, deleting, deleteCalls>>

\* The state outside the applications pipeline.
otherVars == <<positionVars, matcherVars, interviewVars, deleteVars>>

\* The state of the applications pipeline and its pages.
pipelineVars ==
    <<db_application, db_interviews, applications, expandedCards, snapshot, rendered, db_table>>

\* The state the job position edit page leaves alone.
notPositionVars == <<pipelineVars, matcherVars, interviewVars, deleteVars>>

\* The state the requirement matcher leaves alone.
notMatcherVars == <<pipelineVars, positionVars, interviewVars, deleteVars>>

\* The state the AI interview page leaves alone.
notInterviewVars == <<pipelineVars, positionVars, matcherVars, deleteVars>>

\* The state deleteCandidate leaves alone.
notDeleteVars == <<pipelineVars, positionVars, matcherVars, interviewVars>>

vars == <<db_application, db_interviews, applications, expandedCards, snapshot, rendered,
          db_table, otherVars>>

\* handleSubmit of the positions page inserts every job position with the
\* weights 0.7 and 0.3.
NewPosition ==
    [ scoring_formula |-> [ must_have_weight |-> Frac(7, 10),
                            nice_to_have_weight |-> Frac(3, 10) ] ]

\* No MediaRecorder was created yet.
NoRecorder == [state |-> "none", currentQuestion |-> 0]

\* The useState and useRef initial values of the AI interview page.
InitInterview ==
    /\ questions = << >>
    /\ currentQuestion = 0
    /\ isRecording = FALSE
    /\ recordingStarted = FALSE
    /\ timeLeft = 0
    /\ interviewCompleted = FALSE
    /\ loading = TRUE
    /\ streamRef = "none"
    /\ mediaRecorder = NoRecorder
    /\ recordedChunks = FALSE
    /\ timerArmed = FALSE
    /\ upload = << >>
    /\ uploadedVideos = {}

\* Candidates with one application each; application i is of candidate i.
Candidates == 1..MaxCandidates

\* Every candidate and application exists, the ranking page lists them all
\* and no delete is under way.
InitDelete ==
    /\ tbl_applications = Candidates
    /\ tbl_candidates = Candidates
    /\ listed = Candidates
    /\ deleting = << >>
    /\ deleteCalls = [a \in Candidates |-> "idle"]

\* No list was given to the requirement matcher.
InitNoMatch ==
    /\ requirements = << >>
    /\ candidateSkills = {}
    /\ matchResult = << >>

\* A position was created; the edit page and the interview page are not open.
InitOther ==
    /\ db_job_position = NewPosition
    /\ jobPosition = << >>
    /\ InitNoMatch
    /\ InitInterview
    /\ InitDelete

\* handleSubmit of the upload page inserts the row: every scoring column is
\* null, current_stage_id is the position's stage of type 'initial' (the
\* positions page creates it with every position) and status 'in_progress'.
NewApplication ==
    [ current_stage_id |-> "initial",
      status |-> "in_progress",
      total_score |-> NoNumber,
      ai_analysis |-> << >>,
      cv_parsed_data |-> TRUE,
      recruitment_task_status |-> Null,
      recruitment_task_score |-> NoNumber,
      recruitment_task_feedback |-> Null,
      candidate_decision |-> Null,
      decision_email_content |-> Null ]

\* The columns of an application that the pages' handlers and derivations
\* read; the other selected columns are only displayed.
ReadColumns ==
    {"total_score", "cv_parsed_data", "recruitment_task_status", "candidate_decision"}

\* select(..., interviews(...)): the row with its interviews embedded.
Select(row, interviews) ==
    [f \in ReadColumns \cup {"interviews"} |->
        IF f = "interviews" THEN interviews ELSE row[f]]

\* b.total_score || 0 of the comparator
SortKey(a) == IF FalsyNumber(a.total_score) THEN 0 ELSE a.total_score[1]

\* Array.prototype.sort is stable: a row goes behind the rows whose key is
\* not smaller.
RECURSIVE InsertSorted(_, _)
InsertSorted(sorted, a) ==
    IF sorted = << >> THEN <<a>>
    ELSE IF SortKey(sorted[1]) >= SortKey(a)
         THEN <<sorted[1]>> \o InsertSorted(Tail(sorted), a)
         ELSE <<a>> \o sorted

\* (data || []).sort((a, b) => (b.total_score || 0) - (a.total_score || 0))
RECURSIVE sortedData(_)
sortedData(data) ==
    IF data = << >> THEN << >>
    ELSE InsertSorted(sortedData(SubSeq(data, 1, Len(data) - 1)), data[Len(data)])

\* fetchApplications of the ranking page: data is what the query returns;
\* on an error the state is kept.
fetchApplications(p, ok, data) ==
    IF ok THEN [applications EXCEPT ![p] = sortedData(data)]
    ELSE applications

\* One application was uploaded; no ranking page has loaded.
InitPipeline ==
    /\ db_application = NewApplication
    /\ db_interviews = << >>
    /\ applications = [p \in Pages |-> << >>]
    /\ expandedCards = [p \in Pages |-> FALSE]
    /\ snapshot = Select(NewApplication, << >>)
    /\ rendered = << >>
    /\ db_table = << >>

Init ==
    /\ InitPipeline
    /\ InitOther

(* ------------------------- ranking page actions ------------------------ *)

\* useEffect(() => fetchApplications()), also after a change of the filter
FetchApplications(p) ==
    /\ \E ok \in BOOLEAN :
          applications' = fetchApplications(p, ok, <<Select(db_application, db_interviews)>>)
    /\ UNCHANGED <<db_application, db_interviews, expandedCards, snapshot, rendered, db_table, otherVars>>

ScoreApplication(p) ==
    /\ applications[p] # << >>
    /\ LET app == applications[p][1] IN
         /\ app.cv_parsed_data
         /\ \E success \in BOOLEAN, score \in Scores, ok \in BOOLEAN :
              LET row == [db_application EXCEPT
                              !.total_score = Number(score),
                              !.ai_analysis = <<[insights |-> TRUE]>>]
              IN IF success
                 THEN /\ db_application' = row
                      /\ applications' = fetchApplications(p, ok, <<Select(row, db_interviews)>>)
                 ELSE UNCHANGED <<db_application, applications>>
    /\ UNCHANGED <<db_interviews, expandedCards, snapshot, rendered, db_table, otherVars>>

startAIInterview_offered(app) ==
    /\ ~FalsyNumber(app.total_score)
    /\ app.total_score[1] >= INTERVIEW_BUTTON_MIN
    /\ ~getInterviewStatus(InterviewsOf(app)).hasData

StartAIInterview(p) ==
    /\ applications[p] # << >>
    /\ startAIInterview_offered(applications[p][1])
    /\ Len(db_interviews) < MaxInterviews
    /\ \E inserted \in BOOLEAN :
          db_interviews' =
              IF inserted
              THEN Append(db_interviews,
                          [status |-> "scheduled",
                           ai_insights |-> [interview_token |-> Len(db_interviews) + 1]])
              ELSE db_interviews
    /\ UNCHANGED <<db_application, applications, expandedCards, snapshot, rendered, db_table, otherVars>>

SendRecruitmentTask(p) ==
    /\ applications[p] # << >>
    /\ getTaskStatus(applications[p][1]).canSend
    /\ \E updated \in BOOLEAN, ok \in BOOLEAN :
          LET row == [db_application EXCEPT !.recruitment_task_status = "task_sent"]
          IN IF updated
             THEN /\ db_application' = row
                  /\ applications' = fetchApplications(p, ok, <<Select(row, db_interviews)>>)
             ELSE UNCHANGED <<db_application, applications>>
    /\ UNCHANGED <<db_interviews, expandedCards, snapshot, rendered, db_table, otherVars>>

\* The file input is inside the expanded card of an application whose
\* latest interview is completed.
evaluateTaskSolution_offered(p, app) ==
    /\ expandedCards[p]
    /\ getInterviewStatus(app.interviews).hasData
    /\ getTaskStatus(app).status = "waiting_for_solution"

EvaluateTaskSolution(p) ==
    /\ applications[p] # << >>
    /\ evaluateTaskSolution_offered(p, applications[p][1])
    /\ \E success \in BOOLEAN, score \in TaskScores, ok \in BOOLEAN :
          LET row == [db_application EXCEPT
                          !.recruitment_task_status = "task_completed",
                          !.recruitment_task_score = Number(score),
                          !.recruitment_task_feedback = "feedback"]
          IN IF success
             THEN /\ db_application' = row
                  /\ applications' = fetchApplications(p, ok, <<Select(row, db_interviews)>>)
             ELSE UNCHANGED <<db_application, applications>>
    /\ UNCHANGED <<db_interviews, expandedCards, snapshot, rendered, db_table, otherVars>>

\* The decision buttons are rendered for !app.candidate_decision.
makeCandidateDecision_offered_mutScored(app) ==
    FalsyText(app.candidate_decision) /\ ~FalsyNumber(app.total_score)

makeCandidateDecision_offered(app) == FalsyText(app.candidate_decision)

MakeCandidateDecision(p) ==
    /\ applications[p] # << >>
    /\ makeCandidateDecision_offered(applications[p][1])
    /\ \E decisionType \in {"offer", "rejection"}, success \in BOOLEAN, ok \in BOOLEAN :
          LET row == [db_application EXCEPT
                          !.candidate_decision =
                              IF decisionType = "offer" THEN "offered" ELSE "rejected",
                          !.decision_email_content = "email"]
          IN IF success
             THEN /\ db_application' = row
                  /\ applications' = fetchApplications(p, ok, <<Select(row, db_interviews)>>)
             ELSE UNCHANGED <<db_application, applications>>
    /\ UNCHANGED <<db_interviews, expandedCards, snapshot, rendered, db_table, otherVars>>

\* Both buttons that toggle the card are shown for a completed interview.
ToggleCardExpansion(p) ==
    /\ applications[p] # << >>
    /\ getInterviewStatus(applications[p][1].interviews).hasData
    /\ expandedCards' = [expandedCards EXCEPT ![p] = ~expandedCards[p]]
    /\ UNCHANGED <<db_application, db_interviews, applications, snapshot, rendered, db_table, otherVars>>

(* --------------------------- interview webhook ------------------------- *)

\* overallScores.length > 0 ? sum / length : 0
overallScore(overall_assessment) ==
    LET overallScores == ObjectValues(overall_assessment)
    IN IF Len(overallScores) > 0
       THEN NumDiv(Int2Num(ReduceSum(overallScores)), Int2Num(Len(overallScores)))
       ELSE Int2Num(0)

\* The interview the webhook settles on for a token: the row holding the
\* token, else the newest row of the application named in the token;
\* 0 when there is none (404).
FindInterview(token) ==
    IF \E i \in 1..Len(db_interviews) : db_interviews[i].ai_insights.interview_token = token
    THEN CHOOSE i \in 1..Len(db_interviews) :
             db_interviews[i].ai_insights.interview_token = token
    ELSE Len(db_interviews)

\* POST /api/interview-webhook.  token 0 is a token of this application
\* that no interview row holds.
InterviewWebhook ==
    /\ \E token \in 0..MaxInterviews, overall_assessment \in WebhookAssessments,
          updated \in BOOLEAN, appUpdated \in BOOLEAN :
          LET i == FindInterview(token) IN
          /\ i # 0
          /\ IF updated
             THEN /\ db_interviews' =
                         [db_interviews EXCEPT
                             ![i] = [status |-> "completed",
                                     ai_insights |->
                                         [interview_token |-> @.ai_insights.interview_token,
                                          overall_assessment |-> overall_assessment]]]
                  \* interview.ai_analysis is no column of interviews: {} is spread
                  /\ db_application' =
                         IF appUpdated
                         THEN [db_application EXCEPT
                                  !.ai_analysis =
                                      <<[interview_results |->
                                           [overall_score |->
                                                Round1(overallScore(overall_assessment)),
                                            soft_skills |-> overall_assessment]]>>]
                         ELSE db_application
             ELSE UNCHANGED <<db_application, db_interviews>>
    /\ UNCHANGED <<applications, expandedCards, snapshot, rendered, db_table, otherVars>>

(* ------------------------- rendering the pages ------------------------- *)

\* An interview as a page can be given it.
SnapshotInterviews ==
    { [status |-> st, ai_insights |-> [interview_token |-> 1]] :
          st \in {"scheduled", "in_progress"} }
    \cup
    { [status |-> "completed",
       ai_insights |-> [interview_token |-> 1, overall_assessment |-> a]] :
          a \in Assessments }

InterviewLists == UNION { [1..n -> SnapshotInterviews] : n \in 0..MaxInterviews }

ApplicationRows ==
    [ total_score : {NoNumber} \cup {Number(v) : v \in SnapshotScores},
      cv_parsed_data : {TRUE},
      recruitment_task_status : {Null, "task_sent", "task_completed"},
      candidate_decision : {Null, "offered", "rejected"} ]

\* Every application a page can be given: interviews is an optional property.
Snapshots ==
    ApplicationRows \cup { Select(row, is) : row \in ApplicationRows, is \in InterviewLists }

Render(view, result) ==
    /\ view \notin DOMAIN rendered
    /\ rendered' = [v \in DOMAIN rendered \cup {view} |->
                        IF v = view THEN result ELSE rendered[v]]
    /\ UNCHANGED <<db_application, db_interviews, applications, expandedCards, snapshot, db_table, otherVars>>

\* dashboard/page.tsx: the kanban column of the application
RenderDashboard ==
    Render("dashboard", [stage |-> getApplicationStage(snapshot)])

\* candidates/page.tsx: the stage label in the list
RenderCandidates ==
    Render("candidates", [stage |-> getApplicationStage_candidates(snapshot)])

\* candidates/[id]/page.tsx: currentStage and scores
RenderProfile ==
    Render("profile", [stage |-> getApplicationStage_profile(snapshot),
                       scores |-> calculateScores(snapshot),
                       recommendation |->
                           getRecommendationBadge_profile(calculateScores(snapshot))])

\* ranking page: the derivations of one card
RenderRanking ==
    Render("ranking",
           [qualification |-> getQualificationStatus(snapshot.total_score),
            interviewStatus |-> getInterviewStatus(InterviewsOf(snapshot)),
            recommendationBadge |-> getRecommendationBadge(snapshot),
            interviewScore |->
                IF getInterviewStatus(InterviewsOf(snapshot)).hasData
                THEN getInterviewScore(getInterviewStatus(InterviewsOf(snapshot)).interview)
                ELSE NoNumber,
            scores |-> calculateCombinedScore(snapshot),
            taskStatus |-> getTaskStatus(snapshot),
            interviewOffered |-> startAIInterview_offered(snapshot),
            decisionOffered |-> makeCandidateDecision_offered(snapshot)])

InitSnapshot ==
    /\ db_application = NewApplication
    /\ db_interviews = << >>
    /\ applications = [p \in Pages |-> << >>]
    /\ expandedCards = [p \in Pages |-> FALSE]
    /\ snapshot \in Snapshots
    /\ rendered = << >>
    /\ db_table = << >>
    /\ InitOther

NextSnapshot ==
    \/ RenderDashboard
    \/ RenderCandidates
    \/ RenderProfile
    \/ RenderRanking

\* The pages' derivations applied to every application.
SpecSnapshot == InitSnapshot /\ [][NextSnapshot]_vars

Next ==
    \/ \E p \in Pages : FetchApplications(p)
    \/ \E p \in Pages : ScoreApplication(p)
    \/ \E p \in Pages : StartAIInterview(p)
    \/ \E p \in Pages : SendRecruitmentTask(p)
    \/ \E p \in Pages : EvaluateTaskSolution(p)
    \/ \E p \in Pages : MakeCandidateDecision(p)
    \/ \E p \in Pages : ToggleCardExpansion(p)
    \/ InterviewWebhook

Spec == Init /\ [][Next]_vars

(* ------------------- two recruiters on one application ------------------ *)

\* Browser sessions of two recruiters, each showing the ranking page.
Recruiters == {"hr1", "hr2"}

\* The tables once the application was scored 80 and the webhook completed
\* its interview with the ratings {a: 10, b: 0}; no page has loaded yet.
InitRace ==
    LET overall_assessment == [c \in {"a", "b"} |-> IF c = "a" THEN 10 ELSE 0] IN
    /\ db_application =
           [NewApplication EXCEPT
               !.total_score = Number(80),
               !.ai_analysis =
                   <<[interview_results |->
                        [overall_score |-> Round1(overallScore(overall_assessment)),
                         soft_skills |-> overall_assessment]]>>]
    /\ db_interviews =
           <<[status |-> "completed",
              ai_insights |-> [interview_token |-> 1,
                               overall_assessment |-> overall_assessment]]>>
    /\ applications = [p \in Recruiters |-> << >>]
    /\ expandedCards = [p \in Recruiters |-> FALSE]
    /\ snapshot = Select(NewApplication, << >>)
    /\ rendered = << >>
    /\ db_table = << >>
    /\ InitOther

\* What the two recruiters can do with the interviewed application.
NextRace ==
    \/ \E p \in Recruiters : FetchApplications(p)
    \/ \E p \in Recruiters : SendRecruitmentTask(p)
    \/ \E p \in Recruiters : EvaluateTaskSolution(p)
    \/ \E p \in Recruiters : MakeCandidateDecision(p)
    \/ \E p \in Recruiters : ToggleCardExpansion(p)

SpecRace == InitRace /\ [][NextRace]_vars

(* ---------------------- the ranking of several rows --------------------- *)

\* Technical scores of the applications in the ranked table.
RankingScores == {0, 50, 80}

\* Interviews of an application in the ranked table.
RankingInterviews ==
    { << >>,
      <<[status |-> "scheduled", ai_insights |-> [interview_token |-> 1]]>>,
      <<[status |-> "completed",
         ai_insights |-> [interview_token |-> 1,
                          overall_assessment |-> [c \in {"a"} |-> 2]]]>>,
      <<[status |-> "completed",
         ai_insights |-> [interview_token |-> 1,
                          overall_assessment |-> [c \in {"a", "b"} |-> 8]]]>> }

\* Undecided applications without a task, as the ranking page selects them:
\* not yet scored, or scored and with any of the interviews.
RankingRows ==
    { Select([ total_score |-> score,
               cv_parsed_data |-> TRUE,
               recruitment_task_status |-> Null,
               candidate_decision |-> Null ], interviews) :
          score \in {Number(v) : v \in RankingScores},
          interviews \in RankingInterviews }
    \cup
    { Select([ total_score |-> NoNumber,
               cv_parsed_data |-> TRUE,
               recruitment_task_status |-> Null,
               candidate_decision |-> Null ], << >>) }

InitRanking ==
    /\ db_application = NewApplication
    /\ db_interviews = << >>
    /\ applications = [p \in Pages |-> << >>]
    /\ expandedCards = [p \in Pages |-> FALSE]
    /\ snapshot = Select(NewApplication, << >>)
    /\ rendered = << >>
    /\ db_table \in [1..MaxApplications -> RankingRows]
    /\ InitOther

\* fetchApplications on the table: the query has no ORDER BY, so the rows
\* come in any order before they are sorted.
FetchRanking(p) ==
    /\ \E ok \in BOOLEAN, order \in Permutations(1..Len(db_table)) :
          applications' =
              fetchApplications(p, ok, [i \in 1..Len(db_table) |-> db_table[order[i]]])
    /\ UNCHANGED <<db_application, db_interviews, expandedCards, snapshot, rendered, db_table, otherVars>>

NextRanking == \E p \in Pages : FetchRanking(p)

SpecRanking == InitRanking /\ [][NextRanking]_vars

(* ----------------------- the job position edit page -------------------- *)

\* parseFloat(e.target.value) of the two weight inputs (step 0.1, min 0,
\* max 1), for the typed values 0, 0.3, 0.5, 0.7 and 1.
WeightInputs == {Frac(0, 10), Frac(3, 10), Frac(5, 10), Frac(7, 10), Frac(10, 10)}

fetchJobPosition ==
    /\ \E ok \in BOOLEAN :
          jobPosition' = IF ok THEN <<db_job_position>> ELSE jobPosition
    /\ UNCHANGED <<db_job_position, notPositionVars>>

\* onChange of the input must_have_weight
SetMustHaveWeight ==
    /\ jobPosition # << >>
    /\ \E value \in WeightInputs :
          jobPosition' =
              <<[jobPosition[1] EXCEPT !.scoring_formula.must_have_weight = value]>>
    /\ UNCHANGED <<db_job_position, notPositionVars>>

\* onChange of the input nice_to_have_weight
SetNiceToHaveWeight ==
    /\ jobPosition # << >>
    /\ \E value \in WeightInputs :
          jobPosition' =
              <<[jobPosition[1] EXCEPT !.scoring_formula.nice_to_have_weight = value]>>
    /\ UNCHANGED <<db_job_position, notPositionVars>>

\* The update writes jobPosition.scoring_formula as the page holds it.
updateJobPosition ==
    /\ jobPosition # << >>
    /\ \E error \in BOOLEAN :
          db_job_position' =
              IF error THEN db_job_position
              ELSE [db_job_position EXCEPT !.scoring_formula = jobPosition[1].scoring_formula]
    /\ UNCHANGED <<jobPosition, notPositionVars>>

NextPosition ==
    \/ fetchJobPosition
    \/ SetMustHaveWeight
    \/ SetNiceToHaveWeight
    \/ updateJobPosition

SpecPosition == Init /\ [][NextPosition]_vars

(* ------------------------- the requirement matcher --------------------- *)

\* Longest requirement list given to the matcher.
MaxRequirements == 2

\* A skill name is a string, here a sequence of the characters a, A, b and
\* the blank.
SkillNames == { <<"a">>, <<"A">>, <<" ", "a">>, <<"a", " ">>, <<"b">>, <<"a", "b">> }

\* Weights of a requirement (1..10).
RequirementWeights == {1, 5, 10}

LowerChar(c) == CASE c = "A" -> "a" [] c = "B" -> "b" [] OTHER -> c

\* The string in lower case.
Lower(str) == [i \in 1..Len(str) |-> LowerChar(str[i])]

\* The string without its leading and trailing blanks.
RECURSIVE Trim(_)
Trim(str) ==
    IF str = << >> THEN << >>
    ELSE IF Head(str) = " " THEN Trim(Tail(str))
    ELSE IF str[Len(str)] = " " THEN Trim(SubSeq(str, 1, Len(str) - 1))
    ELSE str

\* Case-insensitive, trimmed equality of two skill names.
SameSkill(x, y) == Lower(Trim(x)) = Lower(Trim(y))

\* Per-item match: 1 when the candidate's set contains the skill, else 0.
ItemMatch(requirement, skills) ==
    IF \E skill \in skills : SameSkill(skill, requirement.skill) THEN 1 ELSE 0

RECURSIVE WeightedHits(_, _)
WeightedHits(list, skills) ==
    IF list = << >> THEN 0
    ELSE Head(list).weight * ItemMatch(Head(list), skills) + WeightedHits(Tail(list), skills)

RECURSIVE TotalWeight(_)
TotalWeight(list) ==
    IF list = << >> THEN 0 ELSE Head(list).weight + TotalWeight(Tail(list))

match_mutEmptyIsZero(list, skills) ==
    [ normalizedScore |->
          IF list = << >> THEN Int2Num(0)
          ELSE Frac(WeightedHits(list, skills), TotalWeight(list)),
      perItem |-> [i \in 1..Len(list) |->
                      [skill |-> list[i].skill,
                       matched |-> ItemMatch(list[i], skills) = 1,
                       weight |-> list[i].weight]] ]

\* match(requirements, candidate): sum(weight * match) / sum(weight), and
\* 1.0 for the empty list.
match(list, skills) ==
    [ normalizedScore |->
          IF list = << >> THEN Int2Num(1)
          ELSE Frac(WeightedHits(list, skills), TotalWeight(list)),
      perItem |-> [i \in 1..Len(list) |->
                      [skill |-> list[i].skill,
                       matched |-> ItemMatch(list[i], skills) = 1,
                       weight |-> list[i].weight]] ]

RequirementLists ==
    UNION { [1..n -> [skill : {<<"a">>, <<" ", "A">>, <<"b">>},
                      level : {"regular"},
                      weight : RequirementWeights]] : n \in 0..MaxRequirements }

InitMatcher ==
    /\ InitPipeline
    /\ db_job_position = NewPosition
    /\ jobPosition = << >>
    /\ InitInterview
    /\ InitDelete
    /\ requirements \in RequirementLists
    /\ candidateSkills \in SUBSET {<<"A">>, <<"a", " ">>, <<"a", "b">>}
    /\ matchResult = << >>

Match ==
    /\ matchResult = << >>
    /\ matchResult' = <<match(requirements, candidateSkills)>>
    /\ UNCHANGED <<requirements, candidateSkills, notMatcherVars>>

NextMatcher == Match

SpecMatcher == InitMatcher /\ [][NextMatcher]_vars

(* --------------------------- the AI interview page --------------------- *)

\* Longest question list the generator returns.
MaxQuestions == 2

\* time_limit_seconds of a question; 0 stands for a missing limit.
TimeLimits == {0, 1, 2}

QuestionLists ==
    UNION { [1..n -> [time_limit_seconds : TimeLimits]] : n \in 0..MaxQuestions }

\* list[i]?.time_limit_seconds || 120, i counted from 0
TimeLimit(list, i) ==
    IF i + 1 \in DOMAIN list /\ list[i + 1].time_limit_seconds # 0
    THEN list[i + 1].time_limit_seconds
    ELSE DEFAULT_TIME_LIMIT

\* stopRecording as called from a render with the given isRecording.
stopRecording(recording, recorder) ==
    IF recorder.state # "none" /\ recording
    THEN [isRecording |-> FALSE, timerArmed |-> FALSE,
          mediaRecorder |-> [recorder EXCEPT !.state = "stopping"]]
    ELSE [isRecording |-> recording, timerArmed |-> FALSE, mediaRecorder |-> recorder]

timerEffect_mutGe(recording, seconds, recorder) ==
    IF recording /\ seconds >= 0
    THEN [isRecording |-> recording, timerArmed |-> TRUE, mediaRecorder |-> recorder]
    ELSE IF seconds = 0 /\ recording
    THEN stopRecording(recording, recorder)
    ELSE [isRecording |-> recording, timerArmed |-> FALSE, mediaRecorder |-> recorder]

\* The effect on [timeLeft, isRecording], run after the render that follows a
\* change of either: its cleanup clears the pending timeout, then it arms a
\* new one or stops the recording.
timerEffect(recording, seconds, recorder) ==
    IF recording /\ seconds > 0
    THEN [isRecording |-> recording, timerArmed |-> TRUE, mediaRecorder |-> recorder]
    ELSE IF seconds = 0 /\ recording
    THEN stopRecording(recording, recorder)
    ELSE [isRecording |-> recording, timerArmed |-> FALSE, mediaRecorder |-> recorder]

\* The main view is rendered: not loading, not completed, questions loaded.
MainView == ~loading /\ ~interviewCompleted /\ questions # << >>

\* 'Rozpocznij nagrywanie' is rendered.
startRecording_offered == MainView /\ ~recordingStarted

\* 'Zakoncz odpowiedz' is rendered.
stopRecording_offered == MainView /\ recordingStarted /\ isRecording

\* initializeInterview: ok is the response of the question generator,
\* camera the outcome of getUserMedia.
InitializeInterview(ok, data, camera) ==
    /\ loading
    /\ IF ok
       THEN /\ questions' = data
            /\ timeLeft' = TimeLimit(data, 0)
            /\ streamRef' = IF camera THEN "live" ELSE streamRef
       ELSE UNCHANGED <<questions, timeLeft, streamRef>>
    /\ loading' = FALSE
    /\ UNCHANGED <<currentQuestion, isRecording, recordingStarted, interviewCompleted,
                   mediaRecorder, recordedChunks, timerArmed, upload, uploadedVideos, notInterviewVars>>

\* startRecording; supported is false when new MediaRecorder throws.
StartRecording(supported) ==
    /\ startRecording_offered
    /\ IF streamRef = "none" \/ ~supported
       THEN UNCHANGED <<isRecording, recordingStarted, timeLeft, mediaRecorder,
                        recordedChunks, timerArmed>>
       ELSE LET limit == TimeLimit(questions, currentQuestion)
                effect == timerEffect(TRUE, limit,
                                      [state |-> "recording",
                                       currentQuestion |-> currentQuestion])
            IN /\ recordedChunks' = FALSE
               /\ recordingStarted' = TRUE
               /\ timeLeft' = limit
               /\ isRecording' = effect.isRecording
               /\ timerArmed' = effect.timerArmed
               /\ mediaRecorder' = effect.mediaRecorder
    /\ UNCHANGED <<questions, currentQuestion, interviewCompleted, loading, streamRef,
                   upload, uploadedVideos, notInterviewVars>>

\* mediaRecorder.ondataavailable with event.data.size > 0
DataAvailable ==
    /\ mediaRecorder.state = "recording"
    /\ ~recordedChunks
    /\ recordedChunks' = TRUE
    /\ UNCHANGED <<questions, currentQuestion, isRecording, recordingStarted, timeLeft,
                   interviewCompleted, loading, streamRef, mediaRecorder, timerArmed,
                   upload, uploadedVideos, notInterviewVars>>

\* The timeout of the timer effect fires: setTimeLeft(prev => prev - 1), then
\* the effect runs again.
Tick ==
    /\ timerArmed
    /\ LET effect == timerEffect(isRecording, timeLeft - 1, mediaRecorder)
       IN /\ timeLeft' = timeLeft - 1
          /\ isRecording' = effect.isRecording
          /\ timerArmed' = effect.timerArmed
          /\ mediaRecorder' = effect.mediaRecorder
    /\ UNCHANGED <<questions, currentQuestion, recordingStarted, interviewCompleted,
                   loading, streamRef, recordedChunks, upload, uploadedVideos, notInterviewVars>>

\* The candidate clicks 'Zakoncz odpowiedz'.
StopRecording ==
    /\ stopRecording_offered
    /\ LET stopped == stopRecording(isRecording, mediaRecorder)
           effect == timerEffect(stopped.isRecording, timeLeft, stopped.mediaRecorder)
       IN /\ isRecording' = effect.isRecording
          /\ timerArmed' = effect.timerArmed
          /\ mediaRecorder' = effect.mediaRecorder
    /\ UNCHANGED <<questions, currentQuestion, recordingStarted, timeLeft,
                   interviewCompleted, loading, streamRef, recordedChunks, upload,
                   uploadedVideos, notInterviewVars>>

\* The recorder delivers its last data (size > 0 or not) and fires onstop,
\* which calls the uploadRecording of the render startRecording ran in.
OnStop(lastData) ==
    /\ mediaRecorder.state = "stopping"
    /\ mediaRecorder' = [mediaRecorder EXCEPT !.state = "inactive"]
    /\ recordedChunks' = (recordedChunks \/ lastData)
    /\ upload' = IF recordedChunks' THEN <<[currentQuestion |-> mediaRecorder.currentQuestion]>>
                 ELSE << >>
    /\ UNCHANGED <<questions, currentQuestion, isRecording, recordingStarted, timeLeft,
                   interviewCompleted, loading, streamRef, timerArmed, uploadedVideos, notInterviewVars>>

hasNextQuestion_mutLe(question, list) == question <= Len(list) - 1

\* currentQuestion < questions.length - 1
hasNextQuestion(question, list) == question < Len(list) - 1

\* The response of /api/upload-interview-video arrives in uploadRecording.
UploadResponse(ok) ==
    /\ upload # << >>
    /\ upload' = << >>
    /\ uploadedVideos' = IF ok THEN uploadedVideos \cup {upload[1].currentQuestion + 1}
                         ELSE uploadedVideos
    /\ IF ~ok
       THEN UNCHANGED <<currentQuestion, timeLeft, recordedChunks, interviewCompleted,
                        streamRef, timerArmed, isRecording, mediaRecorder>>
       ELSE IF hasNextQuestion(upload[1].currentQuestion, questions)
       THEN LET seconds == TimeLimit(questions, upload[1].currentQuestion + 1)
                effect == timerEffect(isRecording, seconds, mediaRecorder)
            IN /\ currentQuestion' = currentQuestion + 1
               /\ timeLeft' = seconds
               /\ recordedChunks' = FALSE
               /\ isRecording' = effect.isRecording
               /\ timerArmed' = effect.timerArmed
               /\ mediaRecorder' = effect.mediaRecorder
               /\ UNCHANGED <<interviewCompleted, streamRef>>
       ELSE /\ interviewCompleted' = TRUE
            /\ streamRef' = IF streamRef = "none" THEN "none" ELSE "stopped"
            /\ timerArmed' = FALSE
            /\ UNCHANGED <<currentQuestion, timeLeft, recordedChunks, isRecording,
                           mediaRecorder>>
    /\ UNCHANGED <<questions, recordingStarted, loading, notInterviewVars>>

NextInterview ==
    \/ \E ok \in BOOLEAN, data \in QuestionLists, camera \in BOOLEAN :
           InitializeInterview(ok, data, camera)
    \/ \E supported \in BOOLEAN : StartRecording(supported)
    \/ DataAvailable
    \/ Tick
    \/ StopRecording
    \/ \E lastData \in BOOLEAN : OnStop(lastData)
    \/ \E ok \in BOOLEAN : UploadResponse(ok)

SpecInterview == Init /\ [][NextInterview]_vars

(* ------------------------------ deleteCandidate ------------------------ *)

\* The candidate clicks through confirm(): setDeleting(app.id) and the
\* delete of the application row is sent.
DeleteCandidate(a) ==
    /\ a \in listed
    /\ deleting # <<a>>
    /\ deleteCalls[a] = "idle"
    /\ deleting' = <<a>>
    /\ deleteCalls' = [deleteCalls EXCEPT ![a] = "delete_application"]
    /\ UNCHANGED <<tbl_applications, tbl_candidates, listed, notDeleteVars>>

\* The delete of the application row returns: on an error the handler
\* throws, alerts and resets deleting; else the candidate delete is sent.
DeleteApplicationResponse(a, ok) ==
    /\ deleteCalls[a] = "delete_application"
    /\ IF ok
       THEN /\ tbl_applications' = tbl_applications \ {a}
            /\ deleteCalls' = [deleteCalls EXCEPT ![a] = "delete_candidate"]
            /\ UNCHANGED deleting
       ELSE /\ deleteCalls' = [deleteCalls EXCEPT ![a] = "idle"]
            /\ deleting' = << >>
            /\ UNCHANGED tbl_applications
    /\ UNCHANGED <<tbl_candidates, listed, notDeleteVars>>

\* The delete of the candidate row returns: on an error the handler throws,
\* alerts and resets deleting; else fetchApplications is called.
DeleteCandidateResponse(a, ok) ==
    /\ deleteCalls[a] = "delete_candidate"
    /\ IF ok
       THEN /\ tbl_candidates' = tbl_candidates \ {a}
            /\ deleteCalls' = [deleteCalls EXCEPT ![a] = "refresh"]
            /\ UNCHANGED deleting
       ELSE /\ deleteCalls' = [deleteCalls EXCEPT ![a] = "idle"]
            /\ deleting' = << >>
            /\ UNCHANGED tbl_candidates
    /\ UNCHANGED <<tbl_applications, listed, notDeleteVars>>

\* fetchApplications returns (it catches its own error), then finally
\* resets deleting.
RefreshResponse(a, ok) ==
    /\ deleteCalls[a] = "refresh"
    /\ listed' = IF ok THEN tbl_applications ELSE listed
    /\ deleteCalls' = [deleteCalls EXCEPT ![a] = "idle"]
    /\ deleting' = << >>
    /\ UNCHANGED <<tbl_applications, tbl_candidates, notDeleteVars>>

NextDelete ==
    \E a \in Candidates :
        \/ DeleteCandidate(a)
        \/ \E ok \in BOOLEAN : DeleteApplicationResponse(a, ok)
        \/ \E ok \in BOOLEAN : DeleteCandidateResponse(a, ok)
        \/ \E ok \in BOOLEAN : RefreshResponse(a, ok)

SpecDelete == Init /\ [][NextDelete]_vars

(* ------------------------------ properties ----------------------------- *)

\* The application as a fetch returns it now.
Stored == Select(db_application, db_interviews)

Decided(app) == app.candidate_decision \in {"offered", "rejected"}

\* The last interview of a non-empty list.
Latest(interviews) == interviews[Len(interviews)]

\* Sum and number of the ratings of an assessment, from its categories.
RECURSIVE RatingSum(_, _)
RatingSum(m, names) ==
    IF names = {} THEN 0
    ELSE LET c == CHOOSE x \in names : TRUE IN m[c] + RatingSum(m, names \ {c})

\* t * 0.65 + (sum / k * 10) * 0.35 as a fraction of whole numbers, k > 0.
ExpectedCombined(t, sum, k) ==
    LET n == 65 * t * k + 350 * sum
        d == 100 * k
        g == GCD(n, d)
    IN [n |-> n \div g, d |-> d \div g]

TechnicalOf(app) == IF app.total_score = NoNumber THEN 0 ELSE app.total_score[1]

\* C1: an application with a technical score, at least one interview and a
\* decision ('offered' or 'rejected') is in stage 'decision', whatever its
\* recruitment task status, so also right after makeCandidateDecision.
C1_DecisionAlwaysWins ==
    ( /\ Stored.total_score # NoNumber
      /\ Len(Stored.interviews) > 0
      /\ Decided(Stored) )
    => getApplicationStage(Stored) = "decision"

\* C2: the stage is 'new_applications' if and only if the technical score is
\* null; a score of 0 with no interviews is 'cv_screening'.
C2_NewApplicationsIffNoScore ==
    /\ getApplicationStage(Stored) = "new_applications" <=> Stored.total_score = NoNumber
    /\ ( Stored.total_score # NoNumber /\ Len(Stored.interviews) = 0 )
           => getApplicationStage(Stored) = "cv_screening"

\* C3: for every application (score null or a number; interviews absent,
\* empty or not; any task status; any decision) each page derives exactly one
\* of the five stages.
C3_StageIsOneOfFive ==
    \A v \in DOMAIN rendered \cap {"dashboard", "candidates", "profile"} :
        rendered[v].stage \in RecruitmentStage

C3_Witness ==
    /\ "dashboard" \in DOMAIN rendered
    /\ "interviews" \notin DOMAIN snapshot
    /\ snapshot.recruitment_task_status = "task_completed"
    /\ rendered["dashboard"].stage = "cv_screening"

\* C4: the dashboard, the candidates list and the candidate profile derive
\* the same stage from the same application.
C4_StageCopiesAgree ==
    \A v, w \in DOMAIN rendered \cap {"dashboard", "candidates", "profile"} :
        rendered[v].stage = rendered[w].stage

C4_Witness ==
    /\ {"dashboard", "candidates", "profile"} \subseteq DOMAIN rendered
    /\ "interviews" \in DOMAIN snapshot
    /\ Len(snapshot.interviews) > 0
    /\ snapshot.total_score = Number(80)
    /\ snapshot.recruitment_task_status = Null
    /\ Decided(snapshot)
    /\ rendered["profile"].stage = "ai_interview"

\* C5: no operation moves the derived stage of the application to an
\* earlier stage.
C5_StageNeverMovesBack ==
    [][ StageOrder(getApplicationStage(Select(db_application', db_interviews')))
            >= StageOrder(getApplicationStage(Stored)) ]_vars

\* C6: with a latest interview that has category values, combined is
\* technical * 0.65 + (mean * 10) * 0.35 and lies in 0..100.
C6_CombinedFormula ==
    ( /\ "ranking" \in DOMAIN rendered
      /\ Len(InterviewsOf(snapshot)) > 0
      /\ "overall_assessment" \in DOMAIN Latest(InterviewsOf(snapshot)).ai_insights
      /\ DOMAIN Latest(InterviewsOf(snapshot)).ai_insights.overall_assessment # {} )
    => LET m == Latest(InterviewsOf(snapshot)).ai_insights.overall_assessment
           combined == rendered["ranking"].scores.combined
       IN /\ combined = ExpectedCombined(TechnicalOf(snapshot),
                                          RatingSum(m, DOMAIN m),
                                          Cardinality(DOMAIN m))
          /\ combined.d > 0
          /\ 0 <= combined.n
          /\ combined.n <= 100 * combined.d

C6_Witness ==
    /\ "ranking" \in DOMAIN rendered
    /\ snapshot.total_score = Number(80)
    /\ Len(InterviewsOf(snapshot)) = MaxInterviews
    /\ Latest(InterviewsOf(snapshot)).status = "completed"
    /\ Latest(InterviewsOf(snapshot)).ai_insights.overall_assessment
           = [c \in {"a", "b"} |-> 8]
    /\ snapshot.interviews[1].status = "completed"
    /\ snapshot.interviews[1].ai_insights.overall_assessment = [c \in {"a"} |-> 2]
    /\ rendered["ranking"].scores.combined = [n |-> 80, d |-> 1]

\* C7: the combined score is a number for every application; without an
\* assessment, or with an empty one, it is technical * 0.65.
C7_CombinedIsDefined ==
    /\ calculateCombinedScore(Stored).combined.d # 0
    /\ calculateScores(Stored).combined.d # 0
    /\ ( \/ Len(Stored.interviews) = 0
         \/ "overall_assessment" \notin DOMAIN Latest(Stored.interviews).ai_insights
         \/ DOMAIN Latest(Stored.interviews).ai_insights.overall_assessment = {} )
        => calculateCombinedScore(Stored).combined
               = ExpectedCombined(TechnicalOf(Stored), 0, 1)

\* The soft-skill score (0..100) that the latest interview of a list gives:
\* 0 without an assessment, else the mean of its ratings times 10.
LatestSoftSkills(interviews) ==
    LET ai_insights == Latest(interviews).ai_insights IN
    IF "overall_assessment" \notin DOMAIN ai_insights THEN Int2Num(0)
    ELSE Frac(10 * RatingSum(ai_insights.overall_assessment,
                             DOMAIN ai_insights.overall_assessment),
              Cardinality(DOMAIN ai_insights.overall_assessment))

\* C8: for an application with several interviews, the ranking page and the
\* candidate profile both take the soft-skill score from the most recently
\* created interview, so they show the same combined score.  (Stated for
\* interviews whose assessment is absent or has ratings.)
C8_PagesUseLatestInterview ==
    ( /\ Len(Stored.interviews) > 1
      /\ \A i \in 1..Len(Stored.interviews) :
            "overall_assessment" \in DOMAIN Stored.interviews[i].ai_insights
               => DOMAIN Stored.interviews[i].ai_insights.overall_assessment # {} )
    => /\ calculateCombinedScore(Stored).softSkills = LatestSoftSkills(Stored.interviews)
       /\ calculateScores(Stored).softSkills = LatestSoftSkills(Stored.interviews)
       /\ calculateScores(Stored).combined = calculateCombinedScore(Stored).combined

\* C9: getInterviewScore is null without an assessment or with an empty one
\* and the mean otherwise, and what the webhook stores as the overall score
\* of an empty assessment is not the score 0.
C9_NoDataIsNotZero ==
    /\ \A i \in 1..Len(db_interviews) :
          LET ai_insights == db_interviews[i].ai_insights IN
          IF "overall_assessment" \in DOMAIN ai_insights
             /\ DOMAIN ai_insights.overall_assessment # {}
          THEN getInterviewScore(db_interviews[i])
                  = Number(Frac(RatingSum(ai_insights.overall_assessment,
                                          DOMAIN ai_insights.overall_assessment),
                                Cardinality(DOMAIN ai_insights.overall_assessment)))
          ELSE getInterviewScore(db_interviews[i]) = NoNumber
    /\ ( /\ db_application.ai_analysis # << >>
         /\ "interview_results" \in DOMAIN db_application.ai_analysis[1]
         /\ DOMAIN db_application.ai_analysis[1].interview_results.soft_skills = {} )
        => db_application.ai_analysis[1].interview_results.overall_score # Int2Num(0)

\* C10: the badge is 'not recommended' for combined <= 20, 'semi-recommended'
\* for 20 < combined <= 50 and 'recommended' for combined > 50.
C10_RecommendationBands ==
    "ranking" \in DOMAIN rendered
    => LET combined == rendered["ranking"].scores.combined
           badge == rendered["ranking"].recommendationBadge
       IN /\ badge \in {"Nie rekomendowany", "Semi-rekomendowany", "Rekomendowany"}
          /\ combined.d > 0 =>
                /\ combined.n <= 20 * combined.d => badge = "Nie rekomendowany"
                /\ ( combined.n > 20 * combined.d /\ combined.n <= 50 * combined.d )
                       => badge = "Semi-rekomendowany"
                /\ combined.n > 50 * combined.d => badge = "Rekomendowany"

C10_Witness ==
    /\ "ranking" \in DOMAIN rendered
    /\ rendered["ranking"].scores.combined = [n |-> 50, d |-> 1]
    /\ rendered["ranking"].scores.softSkills = [n |-> 50, d |-> 1]
    /\ rendered["ranking"].recommendationBadge = "Semi-rekomendowany"

\* The applications a ranking page shows.
Shown ==
    UNION { { <<p, i>> : i \in 1..Len(applications[p]) } : p \in DOMAIN applications }

\* C11: canSend is true if and only if the combined score is at least 50 and
\* the recruitment task status is null; so it is true at exactly 50 and
\* false for 'task_sent' and 'task_completed'.
C11_CanSendIffEligible ==
    "ranking" \in DOMAIN rendered =>
        LET combined == rendered["ranking"].scores.combined
        IN rendered["ranking"].taskStatus.canSend
              <=> ( /\ combined.d > 0
                    /\ combined.n >= 50 * combined.d
                    /\ snapshot.recruitment_task_status = Null )

C11_Witness ==
    /\ "ranking" \in DOMAIN rendered
    /\ rendered["ranking"].scores.combined = [n |-> 50, d |-> 1]
    /\ snapshot.recruitment_task_status = Null
    /\ rendered["ranking"].taskStatus.canSend

\* C12: on a ranking page the AI Interview action is offered for an
\* application if and only if its technical score is not null and at least
\* 20 and it has no interview at all.
C12_InterviewOfferedIffNoInterview ==
    \A s \in Shown :
        LET app == applications[s[1]][s[2]]
        IN startAIInterview_offered(app)
              <=> ( /\ app.total_score # NoNumber
                    /\ app.total_score[1] >= 20
                    /\ Len(app.interviews) = 0 )

\* C13: the qualification label says 'qualified' if and only if the
\* technical score is at least 20, and no application is labelled 'not
\* qualified' while the AI Interview action is offered for it.
C13_QualifiedIffInterviewThreshold ==
    \A s \in Shown :
        LET app == applications[s[1]][s[2]]
            label == getQualificationStatus(app.total_score)
        IN /\ label = "Kwalifikuje sie do AI interview"
                 <=> (app.total_score # NoNumber /\ app.total_score[1] >= 20)
           /\ ~(label = "Nie kwalifikuje sie" /\ startAIInterview_offered(app))

\* C14: the decision actions are offered if and only if the decision is
\* null, whatever the score, the interviews and the task status.
C14_DecisionOfferedIffUndecided ==
    "ranking" \in DOMAIN rendered =>
        ( rendered["ranking"].decisionOffered <=> snapshot.candidate_decision = Null )

C14_Witness ==
    /\ "ranking" \in DOMAIN rendered
    /\ snapshot.total_score = NoNumber
    /\ snapshot.recruitment_task_status = "task_completed"
    /\ snapshot.candidate_decision = Null
    /\ rendered["ranking"].decisionOffered

\* The state SpecRace starts from, as the tables of Spec reach it.
InterviewedApplication ==
    /\ db_application.total_score = Number(80)
    /\ db_application.recruitment_task_status = Null
    /\ db_application.candidate_decision = Null
    /\ Len(db_interviews) = 1
    /\ db_interviews[1].status = "completed"
    /\ db_application.ai_analysis # << >>
    /\ "interview_results" \in DOMAIN db_application.ai_analysis[1]

\* C15: once candidate_decision holds a value no step changes it, whichever
\* recruiter acts and whatever snapshot their page shows.
C15_DecisionWrittenOnce ==
    [][ db_application.candidate_decision # Null
           => db_application'.candidate_decision = db_application.candidate_decision ]_vars

\* Position of a recruitment task status in null -> task_sent -> task_completed.
TaskOrder(status) ==
    CASE status = Null -> 0
      [] status = "task_sent" -> 1
      [] status = "task_completed" -> 2

\* C16: every step leaves recruitment_task_status as it is or moves it one
\* place forward in null -> 'task_sent' -> 'task_completed'.
C16_TaskStatusOnlyProgresses ==
    [][ \/ db_application'.recruitment_task_status = db_application.recruitment_task_status
        \/ TaskOrder(db_application'.recruitment_task_status)
              = TaskOrder(db_application.recruitment_task_status) + 1 ]_vars

\* C17: the task score and the task feedback are non-null only while the
\* task status is 'task_completed'.
C17_TaskResultOnlyWhenCompleted ==
    ( \/ db_application.recruitment_task_score # NoNumber
      \/ db_application.recruitment_task_feedback # Null )
    => db_application.recruitment_task_status = "task_completed"

\* C18: a step that stores a decision is taken only when the decision gate
\* holds on the stored application, and a step that sets the task status to
\* 'task_sent' only when the task gate holds on the stored application.
C18_GatesHoldOnStoredRecord ==
    [][ /\ db_application'.candidate_decision # db_application.candidate_decision
           => makeCandidateDecision_offered(Stored)
        /\ ( /\ db_application'.recruitment_task_status = "task_sent"
             /\ db_application.recruitment_task_status # "task_sent" )
           => getTaskStatus(Stored).canSend ]_vars

\* The pipeline stage that current_stage_id names: the stage of type
\* 'initial' is the first one, 'Nowe aplikacje'.
StoredStage(row) ==
    IF row.current_stage_id = "initial" THEN "new_applications" ELSE row.current_stage_id

\* C19: the row of an application holds no stage, or the stage it holds is
\* the stage derived from the current record.
C19_NoStoredStageDiverges ==
    \/ db_application.current_stage_id = Null
    \/ StoredStage(db_application) = getApplicationStage(Stored)

\* C20: the ranking page lists the applications by combined score,
\* descending: no application is listed below one with a smaller combined
\* score, so of two with the same technical score the one with a positive
\* soft-skill mean comes first.
C20_RankedByCombined ==
    \A p \in DOMAIN applications :
        \A i, j \in 1..Len(applications[p]) :
            i < j => ~NumLt(calculateCombinedScore(applications[p][i]).combined,
                            calculateCombinedScore(applications[p][j]).combined)

\* C21: the scoring formula stored for the job position has
\* must_have_weight + nice_to_have_weight <= 1, after its creation and after
\* every edit.
C21_StoredWeightsSumAtMostOne ==
    NumLe(NumAdd(db_job_position.scoring_formula.must_have_weight,
                 db_job_position.scoring_formula.nice_to_have_weight),
          Int2Num(1))

\* C22: an application whose recruitment task status is set has at least
\* one interview, so it is never in stage 'cv_screening'.
C22_TaskOnlyAfterInterview ==
    db_application.recruitment_task_status # Null
        => /\ Len(db_interviews) > 0
           /\ getApplicationStage(Stored) # "cv_screening"

\* The requirements of a list that the skills satisfy, by position.
Hits(list, skills) ==
    { i \in 1..Len(list) :
          \E skill \in skills : Lower(Trim(skill)) = Lower(Trim(list[i].skill)) }

RECURSIVE WeightOf(_, _)
WeightOf(list, positions) ==
    IF positions = {} THEN 0
    ELSE LET i == CHOOSE x \in positions : TRUE
         IN list[i].weight + WeightOf(list, positions \ {i})

\* C23: the aggregate score of the matcher is the weight of the matched
\* requirements over the weight of all requirements, lies in [0, 1], and is
\* 1 for the empty list.
C23_MatcherScore ==
    matchResult # << >> =>
        LET score == matchResult[1].normalizedScore
            all == 1..Len(requirements)
        IN /\ score.d > 0
           /\ 0 <= score.n
           /\ score.n <= score.d
           /\ requirements = << >> => score = [n |-> 1, d |-> 1]
           /\ requirements # << >> =>
                 score.n * WeightOf(requirements, all)
                    = score.d * WeightOf(requirements, Hits(requirements, candidateSkills))

C23_Witness ==
    /\ matchResult # << >>
    /\ Len(requirements) = MaxRequirements
    /\ requirements[1].skill = <<" ", "A">>
    /\ requirements[1].weight = 5
    /\ \A i \in 2..Len(requirements) : requirements[i].skill = <<"b">> /\ requirements[i].weight = 10
    /\ candidateSkills = {<<"a", " ">>, <<"a", "b">>}
    /\ matchResult[1].normalizedScore.n > 0
    /\ matchResult[1].normalizedScore.n < matchResult[1].normalizedScore.d

\* The band a label of either page stands for.
BandOf(label) ==
    CASE label \in {"Rekomendowany"} -> "recommended"
      [] label \in {"Semi-rekomendowany", "Czesciowo rekomendowany"} -> "semi"
      [] label \in {"Nie rekomendowany"} -> "not_recommended"

\* C24: when the profile page and the ranking page computed the same combined
\* score, they show the same recommendation band.
C24_SameBandOnBothPages ==
    ( /\ "profile" \in DOMAIN rendered
      /\ "ranking" \in DOMAIN rendered
      /\ ~IsNaN(rendered["ranking"].scores.combined)
      /\ rendered["profile"].scores.combined = rendered["ranking"].scores.combined )
        => BandOf(rendered["profile"].recommendation)
              = BandOf(rendered["ranking"].recommendationBadge)

\* C25: after the upload of a question that is not the last, with the page
\* idle and the camera live, the candidate can start recording the next one.
C25_CanRecordNextQuestion ==
    ( /\ MainView
      /\ currentQuestion > 0
      /\ streamRef = "live"
      /\ ~isRecording
      /\ mediaRecorder.state = "inactive"
      /\ upload = << >> )
        => startRecording_offered

\* C26 as stated: currentQuestion always lies within 0..questions.length-1.
C26_IndexAlwaysInRange == currentQuestion \in 0..(Len(questions) - 1)

\* An upload request is answered in this step.
UploadAnswered == upload # << >> /\ upload' = << >>

\* C26: once a non-empty question list is loaded currentQuestion lies within
\* 0..questions.length-1; it changes only by +1, and does so exactly when the
\* upload of a question that is not the last is answered with ok;
\* interviewCompleted becomes true only when the upload of the last question
\* is answered with ok; a failed or empty upload changes neither.
C26_QuestionProgress ==
    /\ [](questions # << >> => currentQuestion \in 0..(Len(questions) - 1))
    /\ [][ /\ currentQuestion' # currentQuestion =>
                /\ currentQuestion' = currentQuestion + 1
                /\ UploadAnswered
                /\ uploadedVideos' = uploadedVideos \cup {upload[1].currentQuestion + 1}
                /\ upload[1].currentQuestion + 1 < Len(questions)
           /\ ( /\ UploadAnswered
                /\ uploadedVideos' # uploadedVideos
                /\ upload[1].currentQuestion + 1 < Len(questions) )
                  => currentQuestion' = currentQuestion + 1
           /\ interviewCompleted' # interviewCompleted =>
                /\ interviewCompleted'
                /\ UploadAnswered
                /\ uploadedVideos' = uploadedVideos \cup {Len(questions)}
                /\ upload[1].currentQuestion + 1 = Len(questions)
           /\ ( UploadAnswered /\ uploadedVideos' = uploadedVideos /\ upload[1].currentQuestion + 1 \notin uploadedVideos )
                  => UNCHANGED <<currentQuestion, interviewCompleted>>
           /\ ( mediaRecorder.state = "stopping" /\ mediaRecorder'.state = "inactive" /\ upload' = << >> )
                  => UNCHANGED <<currentQuestion, interviewCompleted>>
         ]_vars

C26_Witness ==
    /\ Len(questions) = MaxQuestions
    /\ currentQuestion = 1
    /\ uploadedVideos = {1}
    /\ ~interviewCompleted

\* The time limit of the question shown after a step.
ShownLimit == TimeLimit(questions', currentQuestion')

\* C27: timeLeft never goes below 0 and a timeout is pending only while a
\* recording is active; while it is active timeLeft changes only by -1; when
\* it reaches 0 the recording is stopped in the same step; only
\* startRecording makes a recording active; without a recording timeLeft is
\* only ever set to the time limit of the question shown.
C27_Timer ==
    /\ [](timeLeft >= 0 /\ (timerArmed => isRecording) /\ ~(isRecording /\ timeLeft = 0))
    /\ [][ /\ (isRecording /\ timeLeft' # timeLeft) => timeLeft' = timeLeft - 1
           /\ (isRecording /\ timeLeft' # timeLeft /\ timeLeft' = 0) =>
                 ~isRecording' /\ ~timerArmed' /\ mediaRecorder'.state = "stopping"
           /\ (~isRecording /\ isRecording') => (startRecording_offered /\ timeLeft' = ShownLimit)
           /\ (~isRecording /\ timeLeft' # timeLeft) => timeLeft' = ShownLimit
         ]_vars

C27_Witness ==
    /\ mediaRecorder.state = "stopping"
    /\ timeLeft = 0
    /\ ~isRecording
    /\ recordingStarted

\* The row holds the insights CV scoring stored in ai_analysis.
HasInsights(row) == row.ai_analysis # << >> /\ "insights" \in DOMAIN row.ai_analysis[1]

\* The webhook updated an interview row in this step.
WebhookStep == Len(db_interviews') = Len(db_interviews) /\ db_interviews' # db_interviews

\* C28: a webhook step keeps the insights of CV scoring in ai_analysis and
\* leaves total_score, the task columns and candidate_decision unchanged.
C28_WebhookKeepsScoring ==
    [][ WebhookStep =>
          /\ HasInsights(db_application) => HasInsights(db_application')
          /\ db_application'.total_score = db_application.total_score
          /\ db_application'.recruitment_task_status = db_application.recruitment_task_status
          /\ db_application'.recruitment_task_score = db_application.recruitment_task_score
          /\ db_application'.recruitment_task_feedback = db_application.recruitment_task_feedback
          /\ db_application'.candidate_decision = db_application.candidate_decision
      ]_vars

\* C29: when an interview of the application is 'completed', the ranking
\* page reports the interview as completed.
C29_CompletedInterviewIsShown ==
    (\E i \in 1..Len(db_interviews) : db_interviews[i].status = "completed")
        => getInterviewStatus(InterviewsOf(Stored)).hasData

\* C30: once a deleteCandidate call has finished, the application and its
\* candidate either both exist or are both gone.
C30_DeleteAllOrNothing ==
    \A a \in Candidates :
        deleteCalls[a] = "idle" => (a \in tbl_applications <=> a \in tbl_candidates)

====
